---- MODULE Spec2Model ----
(***************************************************************************)
(* Model of the integration health-check plugin: the two health            *)
(* classifiers of client.py, the per-record enrichment coroutine, the      *)
(* asyncio.gather fan-out of get_integrations and the on_resync entry      *)
(* point of main.py with the log-limit validation of integration.py.       *)
(***************************************************************************)
EXTENDS Integers, Sequences, FiniteSets, TLC

(***************************************************************************)
(* Bounds of the model.                                                    *)
(***************************************************************************)
MaxRecords == 2
MaxAuditLen == 3
MaxLogLen == 2
TsLen == 2
MaxBatchAuditLen == 1
MaxBatchLogLen == 1

(***************************************************************************)
(* Program constant: the largest accepted log_limit.                       *)
(***************************************************************************)
MaxLogLimit == 300

(***************************************************************************)
(* Value domains.  Timestamps are strings in the program; a string is a    *)
(* sequence of characters, here digits, and the empty sequence is the      *)
(* falsy value (None or "") of `x.get("lastResyncStart") or createdAt`.    *)
(***************************************************************************)
Digits == 0..1
Timestamps == [1..TsLen -> Digits]
Falsy == <<>>
EarlyTs == [k \in 1..TsLen |-> 0]
LateTs == [k \in 1..TsLen |-> 1]

HealthStates == {"HEALTHY", "WARNING", "ERROR", "INACTIVE"}
Levels == {"ERROR", "WARNING", "INFO"}
Statuses == {"FAILURE", "SUCCESS"}
LogMessages == {"m1", "m2"}
AuditMessages == {"a1", "a2"}
LogLimits == {MaxLogLimit, MaxLogLimit + 1}
\* What a request or a token acquisition raises.  httpx.HTTPStatusError is a
\* subclass of httpx.HTTPError and _send_request logs and re-raises both
\* alike, so the base class stands for either.
Exceptions == {"HTTPError"}

LogEntries == [level : Levels, message : LogMessages, timestamp : Timestamps]
AuditEntries == [status : Statuses, message : AuditMessages]

RECURSIVE SeqsUpTo(_, _)
SeqsUpTo(S, n) ==
    IF n = 0 THEN {<<>>}
    ELSE LET shorter == SeqsUpTo(S, n - 1)
         IN  shorter \cup {Append(s, e) : s \in {t \in shorter : Len(t) = n - 1}, e \in S}

AuditSeqs == SeqsUpTo(AuditEntries, MaxAuditLen)

(***************************************************************************)
(* Python's `<` on strings: lexicographic, a proper prefix being smaller.  *)
(***************************************************************************)
RECURSIVE StrLess(_, _)
StrLess(a, b) ==
    IF Len(b) = 0 THEN FALSE
    ELSE IF Len(a) = 0 THEN TRUE
    ELSE IF Head(a) # Head(b) THEN Head(a) < Head(b)
    ELSE StrLess(Tail(a), Tail(b))

Reversed(s) == [k \in 1..Len(s) |-> s[Len(s) + 1 - k]]

(***************************************************************************)
(* _determine_integration_health_from_logs: the loop over reversed(logs).  *)
(***************************************************************************)
RECURSIVE ScanLogs(_, _)
ScanLogs(rlogs, from_date) ==
    IF Len(rlogs) = 0 THEN <<"HEALTHY", "">>
    ELSE LET log == Head(rlogs)
         IN  IF log.level = "ERROR" THEN <<"ERROR", log.message>>
             ELSE IF log.level = "WARNING" THEN <<"WARNING", log.message>>
             ELSE IF StrLess(log.timestamp, from_date) THEN <<"HEALTHY", "">>
             ELSE ScanLogs(Tail(rlogs), from_date)

\* Faulty variant: the scan runs oldest-first instead of most-recent-first.
HealthFromLogsOldestFirst(logs, from_date) ==
    IF Len(logs) = 0 THEN <<"INACTIVE", "">>
    ELSE ScanLogs(logs, from_date)

\* Faulty variant: an empty log list is reported HEALTHY instead of INACTIVE.
HealthFromLogsEmptyHealthy(logs, from_date) ==
    IF Len(logs) = 0 THEN <<"HEALTHY", "">>
    ELSE ScanLogs(Reversed(logs), from_date)

\* Faulty variant: the stale-entry exit keeps the message of the entry it stopped at.
HealthFromLogsStaleMessage(logs, from_date) ==
    IF Len(logs) = 0 THEN <<"INACTIVE", "">>
    ELSE IF ScanLogs(Reversed(logs), from_date)[1] = "HEALTHY"
         THEN <<"HEALTHY", logs[Len(logs)].message>>
         ELSE ScanLogs(Reversed(logs), from_date)

determine_integration_health_from_logs(logs, from_date) ==
    IF Len(logs) = 0 THEN <<"INACTIVE", "">>
    ELSE ScanLogs(Reversed(logs), from_date)

(***************************************************************************)
(* _determine_integration_health_from_audit_logs: the forward loop.        *)
(***************************************************************************)
RECURSIVE ScanAudit(_)
ScanAudit(logs) ==
    IF Len(logs) = 0 THEN <<"HEALTHY", "">>
    ELSE IF Head(logs).status = "FAILURE" THEN <<"ERROR", Head(logs).message>>
    ELSE ScanAudit(Tail(logs))

\* Faulty variant: the audit entries are scanned newest-first.
HealthFromAuditNewestFirst(logs) ==
    IF Len(logs) = 0 THEN <<"INACTIVE", "">>
    ELSE ScanAudit(Reversed(logs))

determine_integration_health_from_audit_logs(logs) ==
    IF Len(logs) = 0 THEN <<"INACTIVE", "">>
    ELSE ScanAudit(logs)

(***************************************************************************)
(* IntegrationSelector.validate_log_limit: the value, or ValueError.       *)
(***************************************************************************)
Return(v) == [raised |-> FALSE, value |-> v]
Raise(e) == [raised |-> TRUE, value |-> e]

\* Faulty variant: the comparison is off by one, so 301 passes.
ValidateLogLimitOffByOne(v) ==
    IF v > MaxLogLimit + 1 THEN Raise("ValueError") ELSE Return(v)

validate_log_limit(v) ==
    IF v > MaxLogLimit THEN Raise("ValueError") ELSE Return(v)

(***************************************************************************)
(* Integration records: dictionaries, i.e. functions on string keys.  The  *)
(* key "resyncState" may be missing; its "lastResyncStart" may be falsy.   *)
(***************************************************************************)
BaseRecord(id, created) ==
    ("_id" :> id) @@ ("installationId" :> id) @@ ("createdAt" :> created)

WithResyncState(rec, last) ==
    rec @@ ("resyncState" :> [lastResyncStart |-> last])

RecordsOf(id) ==
    {BaseRecord(id, EarlyTs)}
    \cup {WithResyncState(BaseRecord(id, EarlyTs), last) : last \in {Falsy, LateTs}}

\* What GET /v1/integration may answer: up to MaxRecords records, the k-th
\* one carrying the id k, so that ids are pairwise distinct.
IntegrationLists ==
    UNION {{list \in [1..n -> UNION {RecordsOf(id) : id \in 1..n}] :
              \A k \in 1..n : list[k]["_id"] = k} :
           n \in 0..MaxRecords}

\* What the log and audit-log endpoints may answer to the batch.
BatchLogEntries ==
    [level : Levels, message : {"m1"}, timestamp : {EarlyTs, LateTs}]
BatchAuditEntries == [status : Statuses, message : {"a1"}]
BatchLogSeqs == SeqsUpTo(BatchLogEntries, MaxBatchLogLen)
BatchAuditSeqs == SeqsUpTo(BatchAuditEntries, MaxBatchAuditLen)

\* `integration["resyncState"].get("lastResyncStart") or integration["createdAt"]`
ReferenceTimestamp(integration) ==
    IF integration["resyncState"].lastResyncStart # Falsy
    THEN integration["resyncState"].lastResyncStart
    ELSE integration["createdAt"]

\* `"resyncState" not in integration`
NeverResynced(integration) == "resyncState" \notin DOMAIN integration

\* Faulty variant: a record that was never resynced is reported HEALTHY.
NeverResyncedHealthy == <<"HEALTHY", "">>

NeverResyncedResult == <<"INACTIVE", "">>

\* Faulty variant: only an audit ERROR ends the enrichment; INACTIVE falls through.
AuditDecidesOnlyError(health) == health = "ERROR"

\* `if health != "HEALTHY"` after the audit-log classification
AuditDecides(health) == health # "HEALTHY"

\* integration["__health"] = health; integration["__errorMessage"] = error_message
SetHealth(integration, r) ==
    [k \in DOMAIN integration \cup {"__health", "__errorMessage"} |->
        IF k = "__health" THEN r[1]
        ELSE IF k = "__errorMessage" THEN r[2]
        ELSE integration[k]]

VARIABLES
    pc,            \* position of on_start, then of on_resync / get_integrations
    log_limit,     \* selector.log_limit
    fetched,       \* the list as GET /v1/integration returned it
    integrations,  \* the same list; the tasks enrich its records in place
    tpc,           \* position of each enrichment task
    auditResult,   \* per task: the audit-log classification (line 236)
    logsSeen,      \* per task: whether its log fetch came back empty,
                   \* "none" before the fetch
    auditReqs,     \* per task: the from_date of each audit-log request sent
    logReqs,       \* per task: the limit of each log request sent
    excs,          \* per task: the exception it raised
    tokenCalls,    \* number of token acquisitions (_get_headers)
    tokensBefore,  \* tokenCalls at the moment the host called on_resync
    orgCalls,      \* number of GET /v1/organization requests sent
    listCalls,     \* number of GET /v1/integration requests sent
    outer,         \* the future of asyncio.gather
    nfinished,     \* gather's count of the done-callbacks it has run
    callbacks,     \* finished tasks whose gather done-callback is scheduled,
                   \* in the order they finished
    firstRaised,   \* the first task that raised, 0 while none has
    waiting,       \* who is suspended in `await self.auth.token`: a task, or 0
                   \* for on_start / on_resync
    result,        \* what on_resync returned
    error,         \* what on_start or on_resync raised
    cpc,           \* classifier harness: "input", "output" or "off"
    c_audits,      \* classifier harness: audit entries given
    c_logs,        \* classifier harness: log entries given
    c_from,        \* classifier harness: from_date given
    c_out          \* classifier harness: the pair returned

batchVars == <<pc, log_limit, fetched, integrations, tpc, auditResult, logsSeen,
               auditReqs, logReqs, excs, tokenCalls, tokensBefore, orgCalls,
               listCalls, outer, nfinished, callbacks, firstRaised, waiting,
               result, error>>
harnessVars == <<cpc, c_audits, c_logs, c_from, c_out>>
vars == <<batchVars, harnessVars>>

NoResult == <<"NONE", "">>
NoException == [type |-> "none", call |-> "none", id |-> 0]
Tasks == 1..Len(integrations)

HarnessOff ==
    /\ cpc = "off"
    /\ c_audits = <<>>
    /\ c_logs = <<>>
    /\ c_from = Falsy
    /\ c_out = NoResult

BatchOff(entry) ==
    /\ pc = entry
    /\ fetched = <<>>
    /\ integrations = <<>>
    /\ tpc = <<>>
    /\ auditResult = <<>>
    /\ logsSeen = <<>>
    /\ auditReqs = <<>>
    /\ logReqs = <<>>
    /\ excs = <<>>
    /\ tokenCalls = 0
    /\ tokensBefore = 0
    /\ orgCalls = 0
    /\ listCalls = 0
    /\ outer = [state |-> "none", results |-> <<>>, exception |-> NoException]
    /\ nfinished = 0
    /\ callbacks = <<>>
    /\ firstRaised = 0
    /\ waiting = {}
    /\ result = <<>>
    /\ error = NoException

\* The two handlers main.py registers are where the host enters: on_start,
\* followed by on_resync, or on_resync on a client that has acquired no token.
EntryPoints == {"on_start", "validate"}

Init ==
    /\ log_limit \in LogLimits
    /\ \E entry \in EntryPoints : BatchOff(entry)
    /\ HarnessOff

(***************************************************************************)
(* _send_request, lines 80-82: the headers are awaited before the request  *)
(* is sent.  `await self.auth.token` returns at once, or suspends the      *)
(* caller until the token is there, or raises.                             *)
(***************************************************************************)
TokenOutcomes == {"returns", "waits", "raises"}
TokenException(e, id) == [type |-> e, call |-> "token", id |-> id]

(***************************************************************************)
(* asyncio.gather over the tasks, return_exceptions left False.  A child   *)
(* that finishes only schedules its done-callback; the callback, run       *)
(* later, gives the outer future the first exception a child raised, or,   *)
(* once every child's callback has run, the children's results in the      *)
(* order the children were given.  A child's result is its record,         *)
(* enriched in place.                                                      *)
(***************************************************************************)
PendingFuture == [state |-> "pending", results |-> <<>>, exception |-> NoException]

\* Faulty variant: the results are collected last child first.
GatherResultsReversed(children) ==
    [k \in 1..Len(children) |-> children[Len(children) + 1 - k]]

GatherResults(children) ==
    [k \in 1..Len(children) |-> children[k]]

\* Faulty variant: return_exceptions=True, a raising child counts as a finished one.
ChildDoneReturnExceptions(fut, children, count, raisedExc) ==
    IF fut.state # "pending" THEN fut
    ELSE IF count = Len(children)
         THEN [fut EXCEPT !.state = "result", !.results = GatherResults(children)]
    ELSE fut

\* The done-callback of one child; count is nfinished, this callback
\* included; raisedExc is NoException when the child returned.
ChildDone(fut, children, count, raisedExc) ==
    IF fut.state # "pending" THEN fut
    ELSE IF raisedExc # NoException
         THEN [fut EXCEPT !.state = "exception", !.exception = raisedExc]
    ELSE IF count = Len(children)
         THEN [fut EXCEPT !.state = "result", !.results = GatherResults(children)]
    ELSE fut

(***************************************************************************)
(* on_start, main.py lines 31-41, and healthcheck, client.py 275-285.      *)
(***************************************************************************)
\* on_start up to the first suspension of healthcheck's _send_request.
StartHealthcheck ==
    /\ pc = "on_start"
    /\ 0 \notin waiting
    /\ tokenCalls' = tokenCalls + 1
    /\ \E t \in TokenOutcomes, e \in Exceptions :
         \/ /\ t = "waits"
            /\ waiting' = waiting \cup {0}
            /\ UNCHANGED <<pc, orgCalls, error>>
         \/ /\ t = "returns"
            /\ orgCalls' = orgCalls + 1
            /\ pc' = "org"
            /\ UNCHANGED <<waiting, error>>
         \/ /\ t = "raises"
            /\ error' = TokenException(e, 0)
            /\ pc' = "start_failed"
            /\ UNCHANGED <<waiting, orgCalls>>
    /\ UNCHANGED <<log_limit, fetched, integrations, tpc, auditResult, logsSeen,
                   auditReqs, logReqs, excs, tokensBefore, listCalls, outer,
                   nfinished, callbacks, firstRaised, result>>
    /\ UNCHANGED harnessVars

\* The awaited token arrives: the organization request is sent.
OrgTokenReturn ==
    /\ pc = "on_start"
    /\ 0 \in waiting
    /\ waiting' = waiting \ {0}
    /\ orgCalls' = orgCalls + 1
    /\ pc' = "org"
    /\ UNCHANGED <<log_limit, fetched, integrations, tpc, auditResult, logsSeen,
                   auditReqs, logReqs, excs, tokenCalls, tokensBefore, listCalls,
                   outer, nfinished, callbacks, firstRaised, result, error>>
    /\ UNCHANGED harnessVars

OrgTokenRaise ==
    /\ pc = "on_start"
    /\ 0 \in waiting
    /\ waiting' = waiting \ {0}
    /\ \E e \in Exceptions : error' = TokenException(e, 0)
    /\ pc' = "start_failed"
    /\ UNCHANGED <<log_limit, fetched, integrations, tpc, auditResult, logsSeen,
                   auditReqs, logReqs, excs, tokenCalls, tokensBefore, orgCalls,
                   listCalls, outer, nfinished, callbacks, firstRaised, result>>
    /\ UNCHANGED harnessVars

\* healthcheck returns bool(response["ok"]); on_start raises when it is false.
\* After a successful on_start the host may call on_resync.
OrgResponse ==
    /\ pc = "org"
    /\ \E ok \in BOOLEAN :
         IF ok
         THEN pc' = "validate" /\ UNCHANGED error
         ELSE /\ pc' = "start_failed"
              /\ error' = [type |-> "Exception", call |-> "on_start", id |-> 0]
    /\ UNCHANGED <<log_limit, fetched, integrations, tpc, auditResult, logsSeen,
                   auditReqs, logReqs, excs, tokenCalls, tokensBefore, orgCalls,
                   listCalls, outer, nfinished, callbacks, firstRaised, result>>
    /\ UNCHANGED <<waiting, harnessVars>>

OrgRaise ==
    /\ pc = "org"
    /\ \E e \in Exceptions :
         error' = [type |-> e, call |-> "organization", id |-> 0]
    /\ pc' = "start_failed"
    /\ UNCHANGED <<log_limit, fetched, integrations, tpc, auditResult, logsSeen,
                   auditReqs, logReqs, excs, tokenCalls, tokensBefore, orgCalls,
                   listCalls, outer, nfinished, callbacks, firstRaised, result>>
    /\ UNCHANGED <<waiting, harnessVars>>

(***************************************************************************)
(* on_resync, lines 22-23: the log limit is validated first.               *)
(***************************************************************************)
ValidateReject ==
    /\ pc = "validate"
    /\ 0 \notin waiting
    /\ validate_log_limit(log_limit).raised
    /\ tokensBefore' = tokenCalls
    /\ pc' = "failed"
    /\ error' = [type |-> validate_log_limit(log_limit).value,
                 call |-> "validate_log_limit", id |-> 0]
    /\ UNCHANGED <<log_limit, fetched, integrations, tpc, auditResult, logsSeen,
                   auditReqs, logReqs, excs, tokenCalls, orgCalls, listCalls,
                   outer, nfinished, callbacks, firstRaised, result>>
    /\ UNCHANGED <<waiting, harnessVars>>

\* on_resync lines 24-26, get_integrations line 267, _fetch_integrations and
\* _send_request up to its first suspension.
ValidateAccept ==
    /\ pc = "validate"
    /\ 0 \notin waiting
    /\ ~validate_log_limit(log_limit).raised
    /\ tokensBefore' = tokenCalls
    /\ tokenCalls' = tokenCalls + 1
    /\ \E t \in TokenOutcomes, e \in Exceptions :
         \/ /\ t = "waits"
            /\ waiting' = waiting \cup {0}
            /\ UNCHANGED <<pc, listCalls, error>>
         \/ /\ t = "returns"
            /\ listCalls' = listCalls + 1
            /\ pc' = "fetch"
            /\ UNCHANGED <<waiting, error>>
         \/ /\ t = "raises"
            /\ error' = TokenException(e, 0)
            /\ pc' = "failed"
            /\ UNCHANGED <<waiting, listCalls>>
    /\ UNCHANGED <<log_limit, fetched, integrations, tpc, auditResult, logsSeen,
                   auditReqs, logReqs, excs, orgCalls, outer, nfinished,
                   callbacks, firstRaised, result>>
    /\ UNCHANGED harnessVars

\* The awaited token arrives: the list request is sent.
ListTokenReturn ==
    /\ pc = "validate"
    /\ 0 \in waiting
    /\ waiting' = waiting \ {0}
    /\ listCalls' = listCalls + 1
    /\ pc' = "fetch"
    /\ UNCHANGED <<log_limit, fetched, integrations, tpc, auditResult, logsSeen,
                   auditReqs, logReqs, excs, tokenCalls, tokensBefore, orgCalls,
                   outer, nfinished, callbacks, firstRaised, result, error>>
    /\ UNCHANGED harnessVars

ListTokenRaise ==
    /\ pc = "validate"
    /\ 0 \in waiting
    /\ waiting' = waiting \ {0}
    /\ \E e \in Exceptions : error' = TokenException(e, 0)
    /\ pc' = "failed"
    /\ UNCHANGED <<log_limit, fetched, integrations, tpc, auditResult, logsSeen,
                   auditReqs, logReqs, excs, tokenCalls, tokensBefore, orgCalls,
                   listCalls, outer, nfinished, callbacks, firstRaised, result>>
    /\ UNCHANGED harnessVars

\* The list request is answered: lines 104 and 268-272, one task per record.
\* gather of no task is a future already done, and awaiting it does not
\* suspend: on_resync returns the empty list in the same step.
FetchResponse ==
    /\ pc = "fetch"
    /\ \E list \in IntegrationLists :
         /\ fetched' = list
         /\ integrations' = list
         /\ tpc' = [k \in 1..Len(list) |-> "ready"]
         /\ auditResult' = [k \in 1..Len(list) |-> NoResult]
         /\ logsSeen' = [k \in 1..Len(list) |-> "none"]
         /\ auditReqs' = [k \in 1..Len(list) |-> <<>>]
         /\ logReqs' = [k \in 1..Len(list) |-> <<>>]
         /\ excs' = [k \in 1..Len(list) |-> NoException]
         /\ IF Len(list) = 0
            THEN /\ outer' = [PendingFuture EXCEPT !.state = "result"]
                 /\ pc' = "returned"
            ELSE /\ outer' = PendingFuture
                 /\ pc' = "gather"
    /\ UNCHANGED <<log_limit, tokenCalls, tokensBefore, orgCalls, listCalls,
                   nfinished, callbacks, firstRaised, result, error>>
    /\ UNCHANGED <<waiting, harnessVars>>

\* The list request fails: _send_request logs and re-raises (lines 84-91).
FetchRaise ==
    /\ pc = "fetch"
    /\ \E e \in Exceptions :
         error' = [type |-> e, call |-> "integration", id |-> 0]
    /\ pc' = "failed"
    /\ UNCHANGED <<log_limit, fetched, integrations, tpc, auditResult, logsSeen,
                   auditReqs, logReqs, excs, tokenCalls, tokensBefore, orgCalls,
                   listCalls, outer, nfinished, callbacks, firstRaised, result>>
    /\ UNCHANGED <<waiting, harnessVars>>

(***************************************************************************)
(* _enrich_integration_health for record i.  A task runs from one          *)
(* suspension to the next; the steps of different tasks interleave freely. *)
(* A task that returns or raises is finished and its gather done-callback  *)
(* is scheduled.                                                           *)
(***************************************************************************)
TaskReturns(i) ==
    /\ tpc' = [tpc EXCEPT ![i] = "done"]
    /\ callbacks' = Append(callbacks, i)
    /\ UNCHANGED <<nfinished, firstRaised>>

TaskRaises(i, exc) ==
    /\ excs' = [excs EXCEPT ![i] = exc]
    /\ tpc' = [tpc EXCEPT ![i] = "raised"]
    /\ callbacks' = Append(callbacks, i)
    /\ firstRaised' = IF firstRaised = 0 THEN i ELSE firstRaised
    /\ UNCHANGED nfinished

\* Lines 220-235: a record never resynced is done at once; otherwise the task
\* goes into _send_request for its audit-log request.
TaskStart(i) ==
    /\ tpc[i] = "ready"
    /\ i \notin waiting
    /\ IF NeverResynced(integrations[i])
       THEN /\ integrations' =
                 [integrations EXCEPT ![i] = SetHealth(@, NeverResyncedResult)]
            /\ TaskReturns(i)
            /\ UNCHANGED <<auditReqs, tokenCalls, excs, waiting>>
       ELSE /\ tokenCalls' = tokenCalls + 1
            /\ UNCHANGED integrations
            /\ \E t \in TokenOutcomes, e \in Exceptions :
                 \/ /\ t = "waits"
                    /\ waiting' = waiting \cup {i}
                    /\ UNCHANGED <<tpc, auditReqs, excs, nfinished, callbacks, firstRaised>>
                 \/ /\ t = "returns"
                    /\ auditReqs' = [auditReqs EXCEPT
                          ![i] = Append(@, ReferenceTimestamp(integrations[i]))]
                    /\ tpc' = [tpc EXCEPT ![i] = "audit"]
                    /\ UNCHANGED <<excs, nfinished, callbacks, firstRaised, waiting>>
                 \/ /\ t = "raises"
                    /\ TaskRaises(i, TokenException(e, integrations[i]["installationId"]))
                    /\ UNCHANGED <<auditReqs, waiting>>
    /\ UNCHANGED <<pc, log_limit, fetched, auditResult, logsSeen, logReqs,
                   tokensBefore, orgCalls, listCalls, outer, result, error>>
    /\ UNCHANGED harnessVars

\* The awaited token arrives: the audit-log request is sent (lines 147-156).
AuditTokenReturn(i) ==
    /\ tpc[i] = "ready"
    /\ i \in waiting
    /\ waiting' = waiting \ {i}
    /\ auditReqs' = [auditReqs EXCEPT
                       ![i] = Append(@, ReferenceTimestamp(integrations[i]))]
    /\ tpc' = [tpc EXCEPT ![i] = "audit"]
    /\ UNCHANGED <<pc, log_limit, fetched, integrations, auditResult, logsSeen,
                   logReqs, excs, tokenCalls, tokensBefore, orgCalls, listCalls,
                   outer, nfinished, callbacks, firstRaised, result, error>>
    /\ UNCHANGED harnessVars

AuditTokenRaise(i) ==
    /\ tpc[i] = "ready"
    /\ i \in waiting
    /\ waiting' = waiting \ {i}
    /\ \E e \in Exceptions :
         TaskRaises(i, TokenException(e, integrations[i]["installationId"]))
    /\ UNCHANGED <<pc, log_limit, fetched, integrations, auditResult, logsSeen,
                   auditReqs, logReqs, tokenCalls, tokensBefore, orgCalls,
                   listCalls, outer, result, error>>
    /\ UNCHANGED harnessVars

\* Lines 157-159 and 236-247: the audit logs arrive and are classified; a
\* result other than HEALTHY is final, otherwise the task goes into
\* _send_request for its log request.
AuditResponse(i) ==
    /\ tpc[i] = "audit"
    /\ i \notin waiting
    /\ \E audits \in BatchAuditSeqs :
         LET r == determine_integration_health_from_audit_logs(audits)
         IN  /\ auditResult' = [auditResult EXCEPT ![i] = r]
             /\ IF AuditDecides(r[1])
                THEN /\ integrations' = [integrations EXCEPT ![i] = SetHealth(@, r)]
                     /\ TaskReturns(i)
                     /\ UNCHANGED <<logReqs, tokenCalls, excs, waiting>>
                ELSE /\ tokenCalls' = tokenCalls + 1
                     /\ UNCHANGED integrations
                     /\ \E t \in TokenOutcomes, e \in Exceptions :
                          \/ /\ t = "waits"
                             /\ waiting' = waiting \cup {i}
                             /\ UNCHANGED <<tpc, logReqs, excs, nfinished, callbacks, firstRaised>>
                          \/ /\ t = "returns"
                             /\ logReqs' = [logReqs EXCEPT ![i] = Append(@, log_limit)]
                             /\ tpc' = [tpc EXCEPT ![i] = "logs"]
                             /\ UNCHANGED <<excs, nfinished, callbacks, firstRaised, waiting>>
                          \/ /\ t = "raises"
                             /\ TaskRaises(i, TokenException(
                                                 e, integrations[i]["installationId"]))
                             /\ UNCHANGED <<logReqs, waiting>>
    /\ UNCHANGED <<pc, log_limit, fetched, logsSeen, auditReqs, tokensBefore,
                   orgCalls, listCalls, outer, result, error>>
    /\ UNCHANGED harnessVars

\* The audit-log request fails: the exception leaves the task.
AuditRaise(i) ==
    /\ tpc[i] = "audit"
    /\ i \notin waiting
    /\ \E e \in Exceptions :
         TaskRaises(i, [type |-> e, call |-> "audit-log",
                        id |-> integrations[i]["installationId"]])
    /\ UNCHANGED <<pc, log_limit, fetched, integrations, auditResult, logsSeen,
                   auditReqs, logReqs, tokenCalls, tokensBefore, orgCalls,
                   listCalls, outer, result, error>>
    /\ UNCHANGED <<waiting, harnessVars>>

\* The awaited token arrives: the log request is sent (lines 122-126).
LogsTokenReturn(i) ==
    /\ tpc[i] = "audit"
    /\ i \in waiting
    /\ waiting' = waiting \ {i}
    /\ logReqs' = [logReqs EXCEPT ![i] = Append(@, log_limit)]
    /\ tpc' = [tpc EXCEPT ![i] = "logs"]
    /\ UNCHANGED <<pc, log_limit, fetched, integrations, auditResult, logsSeen,
                   auditReqs, excs, tokenCalls, tokensBefore, orgCalls, listCalls,
                   outer, nfinished, callbacks, firstRaised, result, error>>
    /\ UNCHANGED harnessVars

LogsTokenRaise(i) ==
    /\ tpc[i] = "audit"
    /\ i \in waiting
    /\ waiting' = waiting \ {i}
    /\ \E e \in Exceptions :
         TaskRaises(i, TokenException(e, integrations[i]["installationId"]))
    /\ UNCHANGED <<pc, log_limit, fetched, integrations, auditResult, logsSeen,
                   auditReqs, logReqs, tokenCalls, tokensBefore, orgCalls,
                   listCalls, outer, result, error>>
    /\ UNCHANGED harnessVars

\* Lines 127-129 and 248-255: the logs arrive, are classified and applied.
LogsResponse(i) ==
    /\ tpc[i] = "logs"
    /\ \E logs \in BatchLogSeqs :
         /\ logsSeen' = [logsSeen EXCEPT ![i] = IF logs = <<>> THEN "empty" ELSE "entries"]
         /\ integrations' =
              [integrations EXCEPT ![i] =
                 SetHealth(@, determine_integration_health_from_logs(
                                 logs, ReferenceTimestamp(integrations[i])))]
    /\ TaskReturns(i)
    /\ UNCHANGED <<pc, log_limit, fetched, auditResult, auditReqs, logReqs, excs,
                   tokenCalls, tokensBefore, orgCalls, listCalls, outer, result,
                   error>>
    /\ UNCHANGED <<waiting, harnessVars>>

\* The log request fails: the exception leaves the task.
LogsRaise(i) ==
    /\ tpc[i] = "logs"
    /\ \E e \in Exceptions :
         TaskRaises(i, [type |-> e, call |-> "logs",
                        id |-> integrations[i]["installationId"]])
    /\ UNCHANGED <<pc, log_limit, fetched, integrations, auditResult, logsSeen,
                   auditReqs, logReqs, tokenCalls, tokensBefore, orgCalls,
                   listCalls, outer, result, error>>
    /\ UNCHANGED <<waiting, harnessVars>>

(***************************************************************************)
(* get_integrations line 272: the event loop runs the scheduled            *)
(* done-callbacks in the order the tasks finished.                         *)
(***************************************************************************)
DoneCallback ==
    /\ callbacks # <<>>
    /\ callbacks' = Tail(callbacks)
    /\ nfinished' = nfinished + 1
    /\ outer' = ChildDone(outer, integrations, nfinished', excs[Head(callbacks)])
    /\ UNCHANGED <<pc, log_limit, fetched, integrations, tpc, auditResult, logsSeen,
                   auditReqs, logReqs, excs, tokenCalls, tokensBefore, orgCalls,
                   listCalls, firstRaised, result, error>>
    /\ UNCHANGED <<waiting, harnessVars>>

(***************************************************************************)
(* get_integrations lines 272-273 and on_resync lines 27-28: the await of  *)
(* the gather future ends with its results or with its exception.          *)
(***************************************************************************)
GatherReturn ==
    /\ pc = "gather"
    /\ outer.state = "result"
    /\ result' = outer.results
    /\ pc' = "returned"
    /\ UNCHANGED <<log_limit, fetched, integrations, tpc, auditResult, logsSeen,
                   auditReqs, logReqs, excs, tokenCalls, tokensBefore, orgCalls,
                   listCalls, outer, nfinished, callbacks, firstRaised, error>>
    /\ UNCHANGED <<waiting, harnessVars>>

GatherRaise ==
    /\ pc = "gather"
    /\ outer.state = "exception"
    /\ error' = outer.exception
    /\ pc' = "failed"
    /\ UNCHANGED <<log_limit, fetched, integrations, tpc, auditResult, logsSeen,
                   auditReqs, logReqs, excs, tokenCalls, tokensBefore, orgCalls,
                   listCalls, outer, nfinished, callbacks, firstRaised, result>>
    /\ UNCHANGED <<waiting, harnessVars>>

Next ==
    \/ StartHealthcheck
    \/ OrgTokenReturn
    \/ OrgTokenRaise
    \/ OrgResponse
    \/ OrgRaise
    \/ ValidateReject
    \/ ValidateAccept
    \/ ListTokenReturn
    \/ ListTokenRaise
    \/ FetchResponse
    \/ FetchRaise
    \/ \E i \in Tasks : TaskStart(i)
    \/ \E i \in Tasks : AuditTokenReturn(i)
    \/ \E i \in Tasks : AuditTokenRaise(i)
    \/ \E i \in Tasks : AuditResponse(i)
    \/ \E i \in Tasks : AuditRaise(i)
    \/ \E i \in Tasks : LogsTokenReturn(i)
    \/ \E i \in Tasks : LogsTokenRaise(i)
    \/ \E i \in Tasks : LogsResponse(i)
    \/ \E i \in Tasks : LogsRaise(i)
    \/ DoneCallback
    \/ GatherReturn
    \/ GatherRaise

Spec == Init /\ [][Next]_vars

(***************************************************************************)
(* The classifiers alone: any entries and reference go in, the pair the    *)
(* function returns comes out.                                             *)
(***************************************************************************)
InitAudit ==
    /\ log_limit = MaxLogLimit
    /\ BatchOff("off")
    /\ cpc = "input"
    /\ c_audits \in AuditSeqs
    /\ c_logs = <<>>
    /\ c_from = Falsy
    /\ c_out = NoResult

ClassifyAudit ==
    /\ cpc = "input"
    /\ c_out' = determine_integration_health_from_audit_logs(c_audits)
    /\ cpc' = "output"
    /\ UNCHANGED <<c_audits, c_logs, c_from>>
    /\ UNCHANGED batchVars

SpecAudit == InitAudit /\ [][ClassifyAudit]_vars

InitLogs ==
    /\ log_limit = MaxLogLimit
    /\ BatchOff("off")
    /\ cpc = "input"
    /\ c_audits = <<>>
    /\ c_logs \in SeqsUpTo(LogEntries, MaxLogLen)
    /\ c_from \in Timestamps
    /\ c_out = NoResult

ClassifyLogs ==
    /\ cpc = "input"
    /\ c_out' = determine_integration_health_from_logs(c_logs, c_from)
    /\ cpc' = "output"
    /\ UNCHANGED <<c_audits, c_logs, c_from>>
    /\ UNCHANGED batchVars

SpecLogs == InitLogs /\ [][ClassifyLogs]_vars

(***************************************************************************)
(* Properties.                                                             *)
(***************************************************************************)
HealthOf(rec) == rec["__health"]
MessageOf(rec) == rec["__errorMessage"]
Enriched(rec) == {"__health", "__errorMessage"} \subseteq DOMAIN rec
RaisedTasks == {i \in Tasks : tpc[i] = "raised"}
Decisive(entry) == entry.level \in {"ERROR", "WARNING"}
Ascending(logs) ==
    \A k \in 1..(Len(logs) - 1) : ~StrLess(logs[k + 1].timestamp, logs[k].timestamp)

\* C1: every record of a list that get_integrations returned has __health, one
\* of the four health states, and __errorMessage, and the message is non-empty
\* only when the health is WARNING or ERROR.
C1_ReturnedRecordsEnriched ==
    pc = "returned" =>
      \A k \in 1..Len(result) :
         /\ Enriched(result[k])
         /\ HealthOf(result[k]) \in HealthStates
         /\ MessageOf(result[k]) # "" => HealthOf(result[k]) \in {"WARNING", "ERROR"}

C1_Witness ==
    /\ pc = "returned"
    /\ \E j, k \in 1..Len(result) :
         /\ HealthOf(result[j]) = "WARNING" /\ MessageOf(result[j]) # ""
         /\ HealthOf(result[k]) = "HEALTHY" /\ MessageOf(result[k]) = ""

\* C2: once the audit-log classification of a record is not HEALTHY, no log
\* request is sent for that record and the audit result is the record's final
\* health and message; a log request is sent only after one audit-log request
\* whose answer classified HEALTHY.
C2_AuditShortCircuit ==
    \A i \in Tasks :
       /\ (auditResult[i] # NoResult /\ auditResult[i][1] # "HEALTHY") =>
             /\ logReqs[i] = <<>>
             /\ logsSeen[i] = "none"
             /\ tpc[i] = "done"
             /\ Enriched(integrations[i])
             /\ HealthOf(integrations[i]) = auditResult[i][1]
             /\ MessageOf(integrations[i]) = auditResult[i][2]
       /\ logReqs[i] # <<>> =>
             /\ Len(auditReqs[i]) = 1
             /\ auditResult[i] = <<"HEALTHY", "">>

C2_Witness ==
    \E i, j \in Tasks :
       /\ auditResult[i] = <<"ERROR", "a1">> /\ tpc[i] = "done"
       /\ auditResult[j] = <<"INACTIVE", "">> /\ tpc[j] = "done"
       /\ pc = "returned"

\* C3: a record without resyncState is never the subject of an audit-log or
\* log request, and once enriched it has health INACTIVE and the empty message.
C3_NeverResyncedInactive ==
    \A i \in Tasks :
       "resyncState" \notin DOMAIN fetched[i] =>
          /\ auditReqs[i] = <<>>
          /\ logReqs[i] = <<>>
          /\ tpc[i] \in {"ready", "done"}
          /\ tpc[i] = "done" =>
                /\ Enriched(integrations[i])
                /\ HealthOf(integrations[i]) = "INACTIVE"
                /\ MessageOf(integrations[i]) = ""

C3_Witness ==
    \E i, j \in Tasks :
       /\ "resyncState" \notin DOMAIN fetched[i]
       /\ tpc[i] = "done"
       /\ logReqs[j] # <<>>
       /\ tpc[j] = "done"
       /\ HealthOf(integrations[j]) = "ERROR"

\* C4: the list get_integrations returns is as long as the fetched list, and
\* its k-th element is the k-th fetched record, enriched: every fetched field
\* unchanged, the two health fields added.
C4_OrderPreserved ==
    pc = "returned" =>
      /\ Len(result) = Len(fetched)
      /\ \A k \in 1..Len(fetched) :
            /\ Enriched(result[k])
            /\ DOMAIN result[k] = DOMAIN fetched[k] \cup {"__health", "__errorMessage"}
            /\ \A key \in DOMAIN fetched[k] : result[k][key] = fetched[k][key]
            /\ result[k] = integrations[k]

C4_Witness ==
    /\ pc = "returned"
    /\ Len(result) >= 2
    /\ nfinished = Len(result)
    /\ HealthOf(result[1]) # HealthOf(result[2])

\* C5: when an enrichment has raised, get_integrations never returns a list:
\* the gather future takes the exception of the enrichment that raised, the
\* first one to raise when several do, as soon as that enrichment's
\* done-callback has run, and when on_resync fails after the fan-out its error
\* is that exception; a list is returned only when every enrichment has
\* completed without error, and it is the whole list.
FirstRaised == firstRaised

CallbackPending(i) == \E k \in 1..Len(callbacks) : callbacks[k] = i

C5_AllOrNothing ==
    /\ RaisedTasks # {} =>
          /\ pc \in {"gather", "failed"}
          /\ result = <<>>
          /\ IF CallbackPending(FirstRaised)
             THEN outer.state = "pending" /\ pc = "gather"
             ELSE outer.state = "exception" /\ outer.exception = excs[FirstRaised]
          /\ pc = "failed" => error = excs[FirstRaised]
    /\ pc = "returned" =>
          /\ \A i \in Tasks : tpc[i] = "done"
          /\ Len(result) = Len(fetched)
    /\ (pc = "failed" /\ error.id # 0) => RaisedTasks # {}

C5_Witness ==
    /\ pc = "failed"
    /\ \E i, j \in Tasks :
         /\ tpc[i] = "raised" /\ error = excs[i]
         /\ error.call = "logs"
         /\ tpc[j] = "done"
         /\ firstRaised = i

\* C6: with a log limit above 300 on_resync fails with the validation error
\* and, from the moment the host calls it, no token is acquired and no list,
\* audit-log or log request is sent; otherwise every log request carries the
\* configured log limit as its limit.
C6_LogLimitValidated ==
    /\ log_limit > 300 =>
          /\ pc \in {"on_start", "org", "start_failed", "validate", "failed"}
          /\ pc \in {"validate", "failed"} => /\ 0 \notin waiting
                                               /\ tokenCalls = orgCalls
          /\ pc = "failed" => /\ error.type = "ValueError"
                              /\ tokenCalls = tokensBefore
          /\ listCalls = 0
          /\ fetched = <<>>
          /\ \A i \in Tasks : auditReqs[i] = <<>> /\ logReqs[i] = <<>>
    /\ \A i \in Tasks : \A k \in 1..Len(logReqs[i]) :
          logReqs[i][k] = log_limit /\ log_limit <= 300

C6_Witness ==
    /\ log_limit = 301
    /\ pc = "failed"
    /\ error.type = "ValueError"
    /\ tokenCalls = tokensBefore
    /\ listCalls = 0

\* C7: the audit-log classifier returns (INACTIVE, "") for no entries, (ERROR,
\* message of the first FAILURE entry) when there is a FAILURE entry, and
\* (HEALTHY, "") otherwise.
AuditReference(entries) ==
    IF entries = <<>> THEN <<"INACTIVE", "">>
    ELSE IF \E k \in 1..Len(entries) : entries[k].status = "FAILURE"
         THEN LET first == CHOOSE k \in 1..Len(entries) :
                             /\ entries[k].status = "FAILURE"
                             /\ \A m \in 1..(k - 1) : entries[m].status # "FAILURE"
              IN  <<"ERROR", entries[first].message>>
    ELSE <<"HEALTHY", "">>

C7_AuditClassifier ==
    cpc = "output" => c_out = AuditReference(c_audits)

C7_Witness ==
    /\ cpc = "output"
    /\ Len(c_audits) = 3
    /\ c_audits[1].status = "SUCCESS"
    /\ c_audits[2].status = "FAILURE"
    /\ c_audits[3].status = "FAILURE"
    /\ c_audits[2].message # c_audits[3].message
    /\ c_out = <<"ERROR", c_audits[2].message>>

\* C8: for chronologically ascending logs, a result of ERROR or WARNING comes
\* from an entry whose timestamp is not earlier than the reference, and when
\* the most recent entry is older than the reference the result is
\* (HEALTHY, "").
C8_NoStaleFailure ==
    (cpc = "output" /\ c_logs # <<>> /\ Ascending(c_logs)) =>
       /\ c_out[1] \in {"ERROR", "WARNING"} =>
             \E k \in 1..Len(c_logs) :
                /\ c_logs[k].level = c_out[1]
                /\ c_logs[k].message = c_out[2]
                /\ ~StrLess(c_logs[k].timestamp, c_from)
       /\ StrLess(c_logs[Len(c_logs)].timestamp, c_from) => c_out = <<"HEALTHY", "">>

\* C9: for non-empty logs whose timestamps are all at or after the reference,
\* the result is the level and message of the last entry whose level is ERROR
\* or WARNING, and (HEALTHY, "") when there is no such entry.
LogsReference(entries) ==
    IF \E k \in 1..Len(entries) : Decisive(entries[k])
    THEN LET last == CHOOSE k \in 1..Len(entries) :
                        /\ Decisive(entries[k])
                        /\ \A m \in (k + 1)..Len(entries) : ~Decisive(entries[m])
         IN  <<entries[last].level, entries[last].message>>
    ELSE <<"HEALTHY", "">>

C9_MostRecentDecisiveWins ==
    (/\ cpc = "output"
     /\ c_logs # <<>>
     /\ \A k \in 1..Len(c_logs) : ~StrLess(c_logs[k].timestamp, c_from)) =>
       c_out = LogsReference(c_logs)

C9_Witness ==
    /\ cpc = "output"
    /\ Len(c_logs) = 2
    /\ \A k \in 1..Len(c_logs) : ~StrLess(c_logs[k].timestamp, c_from)
    /\ c_logs[1].level = "ERROR"
    /\ c_logs[2].level = "WARNING"
    /\ c_logs[1].message # c_logs[2].message
    /\ c_out = <<"WARNING", c_logs[2].message>>

\* C10 as stated: a record whose audit-log classification was HEALTHY ends
\* with a health among HEALTHY, WARNING and ERROR, never INACTIVE.
C10_NeverInactiveAfterAudit ==
    \A i \in Tasks :
       (auditResult[i] = <<"HEALTHY", "">> /\ tpc[i] = "done") =>
          HealthOf(integrations[i]) \in {"HEALTHY", "WARNING", "ERROR"}

\* C10 as amended: a record whose audit-log classification was HEALTHY ends
\* with a health among HEALTHY, WARNING and ERROR when its log request
\* returned at least one entry, and with INACTIVE and the empty message when
\* it returned none.
C10_InactiveIffNoLogs ==
    \A i \in Tasks :
       (auditResult[i] = <<"HEALTHY", "">> /\ tpc[i] = "done") =>
          /\ Len(logReqs[i]) = 1
          /\ logsSeen[i] \in {"empty", "entries"}
          /\ logsSeen[i] = "entries" =>
                HealthOf(integrations[i]) \in {"HEALTHY", "WARNING", "ERROR"}
          /\ logsSeen[i] = "empty" => /\ HealthOf(integrations[i]) = "INACTIVE"
                                      /\ MessageOf(integrations[i]) = ""

C10_Witness ==
    \E i \in Tasks :
       /\ auditResult[i] = <<"HEALTHY", "">>
       /\ tpc[i] = "done"
       /\ logsSeen[i] = "empty"
       /\ HealthOf(integrations[i]) = "INACTIVE"

====
